---- MODULE Spec2Model ----
(***************************************************************************)
(* Interpreter_Simulator.py: Lexer, Parser and Interpreter of a toy        *)
(* expression language, as a state machine.                                *)
(*                                                                         *)
(* A Python string is a sequence of characters; a character is a           *)
(* one-character TLA+ string (two characters outside ASCII carry a name:   *)
(* "sup2" is the superscript two, "half" is the vulgar fraction one half). *)
(* Positions are Python's, counted from 0; s[p] is written s[p + 1].       *)
(***************************************************************************)
EXTENDS Integers, Sequences, FiniteSets, TLC

VARIABLES
    text,        \* Lexer.text
    lpos,        \* Lexer.pos
    ltokens,     \* the local list `tokens` of Lexer.tokenize
    lstatus,     \* where tokenize is: "scanning", "returned" or the exception raised
    tokens,      \* Parser.tokens
    pos,         \* Parser.pos
    ast,         \* the node Parser.parse returned (None before it has)
    pstatus,     \* "ready", "returned" or the exception parse raised
    stack,       \* the activation records of Interpreter.interpret, innermost last
    ret,         \* the value the last finished activation returned
    variables,   \* Interpreter.variables
    istatus      \* "idle", "running", "returned" or the exception interpret raised

lexvars == <<text, lpos, ltokens, lstatus>>
parsevars == <<tokens, pos, ast, pstatus>>
interpvars == <<stack, ret, variables, istatus>>
vars == <<text, lpos, ltokens, lstatus, tokens, pos, ast, pstatus,
          stack, ret, variables, istatus>>

----------------------------------------------------------------------------
(* Bounds of the model.                                                    *)

\* longest text drawn exhaustively from LexChars
MaxTextLen == 4
\* longest token sequence drawn exhaustively from TokenAlphabet
MaxTokens == 3
\* largest numerator, in absolute value, and denominator of a computed value
MaxAbs == 14

----------------------------------------------------------------------------
(* Characters and str's predicates.                                        *)

SpaceChars == {" ", "\n"}
DecimalChars == {"0", "1", "2", "3", "4", "5", "6", "7", "8", "9"}
\* str.isdigit holds, int() rejects
SuperscriptChars == {"sup2"}
\* str.isnumeric holds only: isalnum, neither isdigit nor isalpha
FractionChars == {"half"}
AlphaChars == {"a", "b", "d", "e", "f", "h", "i", "l", "s", "w", "x", "y"}
OperatorChars == {"+", "-", "*", "/", "(", ")", "=", "<", ">"}

isspace(c) == c \in SpaceChars
isdigit(c) == c \in DecimalChars \cup SuperscriptChars
isalpha(c) == c \in AlphaChars
isalnum(c) == c \in AlphaChars \cup DecimalChars \cup SuperscriptChars \cup FractionChars

DigitValue(c) ==
    CASE c = "0" -> 0 [] c = "1" -> 1 [] c = "2" -> 2 [] c = "3" -> 3
      [] c = "4" -> 4 [] c = "5" -> 5 [] c = "6" -> 6 [] c = "7" -> 7
      [] c = "8" -> 8 [] c = "9" -> 9

\* int(num): defined when every character is a decimal digit, ValueError otherwise
IntDefined(num) == \A k \in 1..Len(num) : num[k] \in DecimalChars

RECURSIVE int(_)
int(num) ==
    IF num = <<>> THEN 0
    ELSE 10 * int(SubSeq(num, 1, Len(num) - 1)) + DigitValue(num[Len(num)])

----------------------------------------------------------------------------
(* Token and Lexer.                                                        *)

Token(type, value) == [type |-> type, value |-> value]

keywords == {<<"i", "f">>, <<"e", "l", "s", "e">>, <<"w", "h", "i", "l", "e">>,
             <<"d", "e", "f">>}

\* the position at which the loop of get_number stops
RECURSIVE NumberEnd(_, _)
NumberEnd(s, p) ==
    IF p < Len(s) /\ isdigit(s[p + 1]) THEN NumberEnd(s, p + 1) ELSE p

\* the position at which the loop of get_identifier stops
RECURSIVE IdentifierEnd(_, _)
IdentifierEnd(s, p) ==
    IF p < Len(s) /\ isalnum(s[p + 1]) THEN IdentifierEnd(s, p + 1) ELSE p

\* get_number: the token (when int accepts the run) and the position after the run
get_number(s, p) ==
    LET e == NumberEnd(s, p)
        num == SubSeq(s, p + 1, e)
    IN  IF IntDefined(num)
        THEN [ok |-> TRUE, token |-> Token("NUMBER", int(num)), pos |-> e]
        ELSE [ok |-> FALSE, token |-> Token("NUMBER", 0), pos |-> e]

get_identifier(s, p) ==
    LET e == IdentifierEnd(s, p)
        id == SubSeq(s, p + 1, e)
    IN  [ok |-> TRUE,
         token |-> IF id \in keywords THEN Token("KEYWORD", id)
                   ELSE Token("IDENTIFIER", id),
         pos |-> e]

\* one iteration of the loop of tokenize, entered with p < len(text)
TokenizeIteration(s, p, toks) ==
    LET c == s[p + 1] IN
    IF isspace(c) THEN [status |-> "scanning", pos |-> p + 1, tokens |-> toks]
    ELSE IF isdigit(c) THEN
        LET r == get_number(s, p) IN
        IF r.ok THEN [status |-> "scanning", pos |-> r.pos,
                      tokens |-> Append(toks, r.token)]
        ELSE [status |-> "ValueError", pos |-> r.pos, tokens |-> toks]
    ELSE IF isalpha(c) THEN
        LET r == get_identifier(s, p) IN
        [status |-> "scanning", pos |-> r.pos, tokens |-> Append(toks, r.token)]
    ELSE IF c \in OperatorChars THEN
        [status |-> "scanning", pos |-> p + 1,
         tokens |-> Append(toks, Token("OPERATOR", <<c>>))]
    ELSE [status |-> "Unknown symbol", pos |-> p, tokens |-> toks]

\* tokenize, run to its end from (p, toks)
RECURSIVE TokenizeFrom(_, _, _)
TokenizeFrom(s, p, toks) ==
    IF p >= Len(s) THEN [status |-> "returned", pos |-> p, tokens |-> toks]
    ELSE LET r == TokenizeIteration(s, p, toks) IN
         IF r.status = "scanning" THEN TokenizeFrom(s, r.pos, r.tokens) ELSE r

tokenize(s) == TokenizeFrom(s, 0, <<>>)

----------------------------------------------------------------------------
(* AST nodes.  None is Python's None.                                      *)

None == [type |-> "NoneType"]
NumberNode(value) == [type |-> "NumberNode", value |-> value]
VariableNode(name) == [type |-> "VariableNode", name |-> name]
BinaryOpNode(left, op, right) ==
    [type |-> "BinaryOpNode", left |-> left, op |-> op, right |-> right]
AssignmentNode(name, value) ==
    [type |-> "AssignmentNode", name |-> name, value |-> value]
IfNode(condition, if_body, else_body) ==
    [type |-> "IfNode", condition |-> condition, if_body |-> if_body,
     else_body |-> else_body]
WhileNode(condition, body) ==
    [type |-> "WhileNode", condition |-> condition, body |-> body]

----------------------------------------------------------------------------
(* Parser.  Every method is an operator of (tokens, pos) whose result      *)
(* carries what the method returned, Parser.pos after it, and the          *)
(* exception it raised, if any.  What a method does after a call it makes  *)
(* is an operator of that call's result, named after the method.           *)

Returned(node, p) == [ok |-> TRUE, node |-> node, pos |-> p, error |-> "none"]
Raised(error, p) == [ok |-> FALSE, node |-> None, pos |-> p, error |-> error]

current_token(toks, p) == IF p >= Len(toks) THEN None ELSE toks[p + 1]

peek_next_token(toks, p) == IF p + 1 < Len(toks) THEN toks[p + 2] ELSE None

\* expected_value = <<>> stands for the default None (an empty string is falsy too);
\* the result's node is the token consumed
consume(toks, p, expected_type, expected_value) ==
    IF p >= Len(toks) THEN Raised("Unexpected end of input", p)
    ELSE IF current_token(toks, p).type # expected_type
    THEN Raised("Expected token of type", p)
    ELSE IF expected_value # <<>> /\ current_token(toks, p).value # expected_value
    THEN Raised("Expected value", p)
    ELSE Returned(current_token(toks, p), p + 1)

\* lines 367 and 369, after consume
primary_number(token) ==
    IF token.ok THEN Returned(NumberNode(token.node.value), token.pos) ELSE token

primary_identifier(token) ==
    IF token.ok THEN Returned(VariableNode(token.node.value), token.pos) ELSE token

\* current_token() is None at the end of the tokens, and None has no .type
primary(toks, p) ==
    IF current_token(toks, p) = None THEN Raised("AttributeError", p)
    ELSE IF current_token(toks, p).type = "NUMBER"
    THEN primary_number(consume(toks, p, "NUMBER", <<>>))
    ELSE IF current_token(toks, p).type = "IDENTIFIER"
    THEN primary_identifier(consume(toks, p, "IDENTIFIER", <<>>))
    ELSE Raised("Number or identifier expected", p)

\* lines 341 and 356: node = BinaryOpNode(node, op, right)
binary_op_node(node, op, right) ==
    IF right.ok THEN Returned(BinaryOpNode(node.node, op.node.value, right.node), right.pos)
    ELSE right

RECURSIVE multiplication_loop(_, _)

\* lines 355-356, after op = self.consume("OPERATOR").value
multiplication_right(toks, node, op) ==
    IF op.ok
    THEN multiplication_loop(toks, binary_op_node(node, op, primary(toks, op.pos)))
    ELSE op

\* the while loop of multiplication (lines 352-357), entered with the node built so far
multiplication_loop(toks, node) ==
    IF ~node.ok THEN node
    ELSE IF node.pos < Len(toks) /\ current_token(toks, node.pos).type = "OPERATOR"
              /\ current_token(toks, node.pos).value \in {<<"*">>, <<"/">>}
    THEN multiplication_right(toks, node, consume(toks, node.pos, "OPERATOR", <<>>))
    ELSE node

multiplication(toks, p) == multiplication_loop(toks, primary(toks, p))

RECURSIVE addition_loop(_, _)
RECURSIVE addition(_, _)

\* addition_right with the right operand parsed by primary: + and - bind as
\* tight as * and /
addition_right_flat(toks, node, op) ==
    IF op.ok
    THEN addition_loop(toks, binary_op_node(node, op, primary(toks, op.pos)))
    ELSE op

\* addition_right with the right operand parsed by addition: - groups to the right
addition_right_recursive(toks, node, op) ==
    IF op.ok
    THEN binary_op_node(node, op, addition(toks, op.pos))
    ELSE op

\* lines 340-341, after op = self.consume("OPERATOR").value
addition_right(toks, node, op) ==
    IF op.ok
    THEN addition_loop(toks, binary_op_node(node, op, multiplication(toks, op.pos)))
    ELSE op

\* the while loop of addition (lines 337-342), entered with the node built so far
addition_loop(toks, node) ==
    IF ~node.ok THEN node
    ELSE IF node.pos < Len(toks) /\ current_token(toks, node.pos).type = "OPERATOR"
              /\ current_token(toks, node.pos).value \in {<<"+">>, <<"-">>}
    THEN addition_right(toks, node, consume(toks, node.pos, "OPERATOR", <<>>))
    ELSE node

addition(toks, p) == addition_loop(toks, multiplication(toks, p))

expression(toks, p) == addition(toks, p)

\* line 318
assignment_node(name, value) ==
    IF value.ok THEN Returned(AssignmentNode(name.node.value, value.node), value.pos)
    ELSE value

\* line 317
assignment_value(toks, name, eq) ==
    IF eq.ok THEN assignment_node(name, expression(toks, eq.pos)) ELSE eq

\* line 316
assignment_eq(toks, name) ==
    IF name.ok
    THEN assignment_value(toks, name, consume(toks, name.pos, "OPERATOR", <<"=">>))
    ELSE name

assignment(toks, p) == assignment_eq(toks, consume(toks, p, "IDENTIFIER", <<>>))

RECURSIVE statement(_, _)

parse_whole(r, len) ==
    IF r.ok /\ r.pos < len THEN Raised("Unexpected token", r.pos) ELSE r

\* line 294, with an else branch
if_node(condition, if_body, else_body) ==
    IF else_body.ok
    THEN Returned(IfNode(condition.node, if_body.node, else_body.node), else_body.pos)
    ELSE else_body

\* line 293
if_else_body(toks, condition, if_body, kw) ==
    IF kw.ok THEN if_node(condition, if_body, statement(toks, kw.pos)) ELSE kw

\* lines 289-294
if_else(toks, condition, if_body) ==
    IF ~if_body.ok THEN if_body
    ELSE IF if_body.pos < Len(toks)
              /\ current_token(toks, if_body.pos).type = "KEYWORD"
              /\ current_token(toks, if_body.pos).value = <<"e", "l", "s", "e">>
    THEN if_else_body(toks, condition, if_body,
                      consume(toks, if_body.pos, "KEYWORD", <<"e", "l", "s", "e">>))
    ELSE Returned(IfNode(condition.node, if_body.node, None), if_body.pos)

\* line 288
if_body(toks, condition) ==
    IF condition.ok THEN if_else(toks, condition, statement(toks, condition.pos))
    ELSE condition

\* line 287
if_condition(toks, kw) ==
    IF kw.ok THEN if_body(toks, expression(toks, kw.pos)) ELSE kw

if_statement(toks, p) ==
    if_condition(toks, consume(toks, p, "KEYWORD", <<"i", "f">>))

\* line 306
while_node(condition, body) ==
    IF body.ok THEN Returned(WhileNode(condition.node, body.node), body.pos) ELSE body

\* line 305
while_body(toks, condition) ==
    IF condition.ok THEN while_node(condition, statement(toks, condition.pos))
    ELSE condition

\* line 304
while_condition(toks, kw) ==
    IF kw.ok THEN while_body(toks, expression(toks, kw.pos)) ELSE kw

while_statement(toks, p) ==
    while_condition(toks, consume(toks, p, "KEYWORD", <<"w", "h", "i", "l", "e">>))

\* a KEYWORD that is neither if nor while falls out of the if chain: the
\* method ends without a return statement and so returns None
statement(toks, p) ==
    IF p >= Len(toks) THEN Returned(None, p)
    ELSE IF current_token(toks, p).type = "KEYWORD" THEN
        IF current_token(toks, p).value = <<"i", "f">> THEN if_statement(toks, p)
        ELSE IF current_token(toks, p).value = <<"w", "h", "i", "l", "e">>
        THEN while_statement(toks, p)
        ELSE Returned(None, p)
    ELSE IF current_token(toks, p).type = "IDENTIFIER"
              /\ peek_next_token(toks, p) # None
              /\ peek_next_token(toks, p).type = "OPERATOR"
              /\ peek_next_token(toks, p).value = <<"=">>
    THEN assignment(toks, p)
    ELSE expression(toks, p)

\* parse that refuses tokens left after the statement
parse_to_the_end(toks) == parse_whole(statement(toks, 0), Len(toks))

parse(toks) == statement(toks, 0)

----------------------------------------------------------------------------
(* Values.  A number is the exact fraction n/d in lowest terms with d > 0  *)
(* (an int has d = 1; the result of / is held exactly); NoValue is None.   *)

Abs(i) == IF i < 0 THEN -i ELSE i

RECURSIVE GCD(_, _)
GCD(a, b) == IF b = 0 THEN a ELSE GCD(b, a % b)

NoValue == [kind |-> "None", n |-> 0, d |-> 1]

Number(n, d) ==
    LET g == GCD(Abs(n), Abs(d))
        sgn == IF d < 0 THEN -1 ELSE 1
    IN  [kind |-> "number", n |-> sgn * (n \div g), d |-> sgn * (d \div g)]

IntValue(i) == [kind |-> "number", n |-> i, d |-> 1]

\* a truth test that takes only positive numbers for true
TruthyPositive(v) == v.kind = "number" /\ v.n > 0

\* bool(value): None and zero are false
Truthy(v) == v.kind = "number" /\ v.n # 0

Add(a, b) == Number(a.n * b.d + b.n * a.d, a.d * b.d)
Sub(a, b) == Number(a.n * b.d - b.n * a.d, a.d * b.d)
Mul(a, b) == Number(a.n * b.n, a.d * b.d)
Div(a, b) == Number(a.n * b.d, a.d * b.n)

\* the value is within the bound of the model
InBounds(v) == Abs(v.n) <= MaxAbs /\ v.d <= MaxAbs

\* BinaryOpResult with the zero test of / made on the left operand
BinaryOpResultLeftTest(op, left, right) ==
    IF op = <<"+">> THEN [error |-> "none", value |-> Add(left, right)]
    ELSE IF op = <<"-">> THEN [error |-> "none", value |-> Sub(left, right)]
    ELSE IF op = <<"*">> THEN [error |-> "none", value |-> Mul(left, right)]
    ELSE IF left.n = 0 THEN [error |-> "Division by zero", value |-> NoValue]
    ELSE IF right.n = 0 THEN [error |-> "none", value |-> NoValue]
    ELSE [error |-> "none", value |-> Div(left, right)]

\* lines 449-458: what a BinaryOpNode does with its two operand values
BinaryOpResult(op, left, right) ==
    IF op \notin {<<"+">>, <<"-">>, <<"*">>, <<"/">>}
    THEN [error |-> "none", value |-> NoValue]
    ELSE IF left.kind # "number" \/ right.kind # "number"
    THEN [error |-> "TypeError", value |-> NoValue]
    ELSE IF op = <<"+">> THEN [error |-> "none", value |-> Add(left, right)]
    ELSE IF op = <<"-">> THEN [error |-> "none", value |-> Sub(left, right)]
    ELSE IF op = <<"*">> THEN [error |-> "none", value |-> Mul(left, right)]
    ELSE IF right.n = 0 THEN [error |-> "Division by zero", value |-> NoValue]
    ELSE [error |-> "none", value |-> Div(left, right)]

\* self.variables.get(name, 0)
VariablesGet(env, name) == IF name \in DOMAIN env THEN env[name] ELSE IntValue(0)

\* self.variables = {name: value}: the other names are lost
VariablesSetAlone(env, name, value) == [k \in {name} |-> value]

\* self.variables[name] = value
VariablesSet(env, name, value) ==
    [k \in DOMAIN env \cup {name} |-> IF k = name THEN value ELSE env[k]]

NodeTypes == {"NumberNode", "VariableNode", "BinaryOpNode", "AssignmentNode",
              "IfNode", "WhileNode"}

----------------------------------------------------------------------------
(* Interpreter.interpret, one activation record per call in progress:      *)
(* node is its argument, at is the place it has reached, and left/result   *)
(* are its locals of those names (BinaryOpNode's left, WhileNode's result).*)

Frame(node) == [node |-> node, at |-> "enter", left |-> NoValue, result |-> NoValue]

Top == stack[Len(stack)]

\* the activation on top returns v to its caller
Return(v) ==
    /\ stack' = SubSeq(stack, 1, Len(stack) - 1)
    /\ ret' = v
    /\ istatus' = IF Len(stack) = 1 THEN "returned" ELSE "running"

\* the activation on top, now frame f, calls self.interpret(node)
Call(f, node) ==
    /\ stack' = Append([stack EXCEPT ![Len(stack)] = f], Frame(node))
    /\ ret' = ret
    /\ istatus' = "running"

\* the activation on top raises: the exception unwinds every activation
Raise(error) ==
    /\ stack' = <<>>
    /\ ret' = ret
    /\ istatus' = error

Running(type, at) ==
    /\ istatus = "running"
    /\ stack # <<>>
    /\ Top.node.type = type
    /\ Top.at = at


\* self.interpret(node) is entered: line 442
InterpretNumber ==
    /\ Running("NumberNode", "enter")
    /\ Return(IntValue(Top.node.value))
    /\ UNCHANGED <<variables, lexvars, parsevars>>

\* line 445
InterpretVariable ==
    /\ Running("VariableNode", "enter")
    /\ Return(VariablesGet(variables, Top.node.name))
    /\ UNCHANGED <<variables, lexvars, parsevars>>

\* line 447: left = self.interpret(node.left)
BinaryOpLeft ==
    /\ Running("BinaryOpNode", "enter")
    /\ Call([Top EXCEPT !.at = "left"], Top.node.left)
    /\ UNCHANGED <<variables, lexvars, parsevars>>

\* line 448: right = self.interpret(node.right)
BinaryOpRight ==
    /\ Running("BinaryOpNode", "left")
    /\ Call([Top EXCEPT !.at = "right", !.left = ret], Top.node.right)
    /\ UNCHANGED <<variables, lexvars, parsevars>>

\* lines 449-458, with right just returned
BinaryOpApply ==
    /\ Running("BinaryOpNode", "right")
    /\ LET r == BinaryOpResult(Top.node.op, Top.left, ret) IN
       /\ InBounds(r.value)
       /\ IF r.error = "none" THEN Return(r.value) ELSE Raise(r.error)
    /\ UNCHANGED <<variables, lexvars, parsevars>>

\* line 460: value = self.interpret(node.value)
AssignmentValue ==
    /\ Running("AssignmentNode", "enter")
    /\ Call([Top EXCEPT !.at = "value"], Top.node.value)
    /\ UNCHANGED <<variables, lexvars, parsevars>>

\* lines 461-462
AssignmentStore ==
    /\ Running("AssignmentNode", "value")
    /\ variables' = VariablesSet(variables, Top.node.name, ret)
    /\ Return(ret)
    /\ UNCHANGED <<lexvars, parsevars>>

\* line 464: self.interpret(node.condition)
IfCondition ==
    /\ Running("IfNode", "enter")
    /\ Call([Top EXCEPT !.at = "condition"], Top.node.condition)
    /\ UNCHANGED <<variables, lexvars, parsevars>>

\* lines 464-467, with the condition just returned; an if chain that takes
\* no branch returns None
IfBranch ==
    /\ Running("IfNode", "condition")
    /\ IF Truthy(ret) THEN Call([Top EXCEPT !.at = "if_body"], Top.node.if_body)
       ELSE IF Top.node.else_body # None
       THEN Call([Top EXCEPT !.at = "else_body"], Top.node.else_body)
       ELSE Return(NoValue)
    /\ UNCHANGED <<variables, lexvars, parsevars>>

\* lines 465 and 467: return what the branch returned
IfReturn ==
    /\ istatus = "running"
    /\ stack # <<>>
    /\ Top.node.type = "IfNode"
    /\ Top.at \in {"if_body", "else_body"}
    /\ Return(ret)
    /\ UNCHANGED <<variables, lexvars, parsevars>>

\* lines 469-470: result = None, then the first self.interpret(node.condition)
WhileEnter ==
    /\ Running("WhileNode", "enter")
    /\ Call([Top EXCEPT !.at = "condition", !.result = NoValue], Top.node.condition)
    /\ UNCHANGED <<variables, lexvars, parsevars>>

\* line 470, with the condition just returned: into the body (471) or out (472)
WhileTest ==
    /\ Running("WhileNode", "condition")
    /\ IF Truthy(ret) THEN Call([Top EXCEPT !.at = "body"], Top.node.body)
       ELSE Return(Top.result)
    /\ UNCHANGED <<variables, lexvars, parsevars>>

\* WhileBody without the assignment to result
WhileBodyResultLost ==
    /\ Running("WhileNode", "body")
    /\ Call([Top EXCEPT !.at = "condition"], Top.node.condition)
    /\ UNCHANGED <<variables, lexvars, parsevars>>

\* line 471, with the body just returned: result = ..., and the condition again
WhileBody ==
    /\ Running("WhileNode", "body")
    /\ Call([Top EXCEPT !.at = "condition", !.result = ret], Top.node.condition)
    /\ UNCHANGED <<variables, lexvars, parsevars>>

\* lines 473-474
UnknownNode ==
    /\ istatus = "running"
    /\ stack # <<>>
    /\ Top.node.type \notin NodeTypes
    /\ Top.at = "enter"
    /\ Raise("Unknown node type")
    /\ UNCHANGED <<variables, lexvars, parsevars>>

InterpretStep ==
    \/ InterpretNumber
    \/ InterpretVariable
    \/ BinaryOpLeft
    \/ BinaryOpRight
    \/ BinaryOpApply
    \/ AssignmentValue
    \/ AssignmentStore
    \/ IfCondition
    \/ IfBranch
    \/ IfReturn
    \/ WhileEnter
    \/ WhileTest
    \/ WhileBody
    \/ UnknownNode

----------------------------------------------------------------------------
(* Lexer.tokenize, one loop iteration per step.                            *)

\* lines 52-64
TokenizeStep ==
    /\ lstatus = "scanning"
    /\ lpos < Len(text)
    /\ LET r == TokenizeIteration(text, lpos, ltokens) IN
       /\ lpos' = r.pos
       /\ ltokens' = r.tokens
       /\ lstatus' = r.status
    /\ UNCHANGED <<text, parsevars, interpvars>>

\* lines 52 and 65
TokenizeReturn ==
    /\ lstatus = "scanning"
    /\ lpos >= Len(text)
    /\ lstatus' = "returned"
    /\ UNCHANGED <<text, lpos, ltokens, parsevars, interpvars>>

----------------------------------------------------------------------------
(* run_test's steps after tokenize.                                        *)

\* line 486: ast = parser.parse(), r being what parse did
ParseResult(r) ==
    /\ pos' = r.pos
    /\ ast' = r.node
    /\ pstatus' = IF r.ok THEN "returned" ELSE r.error

Parse ==
    /\ pstatus = "ready"
    /\ ParseResult(parse(tokens))
    /\ UNCHANGED <<tokens, lexvars, interpvars>>

\* line 489: interpreter.interpret(ast) is called
Interpret ==
    /\ pstatus = "returned"
    /\ istatus = "idle"
    /\ stack' = <<Frame(ast)>>
    /\ istatus' = "running"
    /\ UNCHANGED <<ret, variables, lexvars, parsevars>>

\* the previous parse raised, or the previous interpret returned or raised
Finished ==
    /\ pstatus # "ready"
    /\ pstatus = "returned" => istatus \notin {"idle", "running"}

\* line 485, Parser(tokens), for the next input of an Interpreter that is kept
NewParser(toks) ==
    /\ Finished
    /\ tokens' = toks
    /\ pos' = 0
    /\ ast' = None
    /\ pstatus' = "ready"
    /\ stack' = <<>>
    /\ ret' = NoValue
    /\ istatus' = "idle"
    /\ UNCHANGED <<variables, lexvars>>

----------------------------------------------------------------------------
(* Inputs.                                                                 *)

NUM(v) == Token("NUMBER", v)
ID(c) == Token("IDENTIFIER", <<c>>)
OP(c) == Token("OPERATOR", <<c>>)
KW_if == Token("KEYWORD", <<"i", "f">>)
KW_else == Token("KEYWORD", <<"e", "l", "s", "e">>)
KW_while == Token("KEYWORD", <<"w", "h", "i", "l", "e">>)
KW_def == Token("KEYWORD", <<"d", "e", "f">>)

\* the texts of run_test's calls (lines 495-498), and two more
\* '2 + 3 * 4'
Text_2_plus_3_times_4 ==
    <<"2", " ", "+", " ", "3", " ", "*", " ", "4">>
\* 'x = 5\ny = 3\nx + y'
Text_x_y_sum ==
    <<"x", " ", "=", " ", "5", "\n", "y", " ", "=", " ", "3", "\n", "x", " ", "+", " ", "y">>
\* 'x = 10\nif x > 5\n    x * 2\nelse\n    x / 2'
Text_if_else ==
    <<"x", " ", "=", " ", "1", "0", "\n", "i", "f", " ", "x", " ", ">", " ", "5", "\n", " ", " ", " ", " ", "x", " ", "*", " ", "2", "\n", "e", "l", "s", "e", "\n", " ", " ", " ", " ", "x", " ", "/", " ", "2">>
\* 'x = 0\nwhile x < 5\n    x = x + 1\nx'
Text_while ==
    <<"x", " ", "=", " ", "0", "\n", "w", "h", "i", "l", "e", " ", "x", " ", "<", " ", "5", "\n", " ", " ", " ", " ", "x", " ", "=", " ", "x", " ", "+", " ", "1", "\n", "x">>
\* '5 / 0'
Text_5_div_0 ==
    <<"5", " ", "/", " ", "0">>
\* '8 - 3 - 2'
Text_8_minus_3_minus_2 ==
    <<"8", " ", "-", " ", "3", " ", "-", " ", "2">>

SampleTexts == {Text_2_plus_3_times_4, Text_x_y_sum, Text_if_else, Text_while,
                Text_5_div_0, Text_8_minus_3_minus_2}

SeqsUpTo(S, n) == UNION {[1..k -> S] : k \in 0..n}

LexChars == {"0", "1", "i", "f", " ", "+", "$", "sup2", "half"}

Texts ==
    SeqsUpTo(LexChars, MaxTextLen) \cup SampleTexts
      \cup {<<"i", "f", "f", "y">>, <<"i", "f", "1">>, <<"1", "2", "a", "b">>,
            <<"e", "l", "s", "e">>, <<"w", "h", "i", "l", "e">>, <<"d", "e", "f">>,
            <<"d", "e", "f", "s">>, <<"i", "f", "half">>}

TokenAlphabet == {NUM(0), NUM(1), ID("x"), KW_if, KW_else, KW_while, KW_def,
                  OP("+"), OP("-"), OP("*"), OP("/"), OP("="), OP("(")}

Primaries == {NUM(0), NUM(1), NUM(2), ID("x")}
ArithmeticOps == {OP("+"), OP("-"), OP("*"), OP("/")}

\* a op1 b op2 c
ThreeOperandInputs ==
    {<<a, op1, b, op2, c>> : a \in Primaries, op1 \in ArithmeticOps,
                             b \in Primaries, op2 \in ArithmeticOps, c \in Primaries}

TokenInputs ==
    SeqsUpTo(TokenAlphabet, MaxTokens) \cup ThreeOperandInputs
      \cup {tokenize(t).tokens : t \in SampleTexts}

\* the inputs given one after another to one Interpreter
Programs ==
    {<<ID("x"), OP("="), NUM(2)>>,
     <<ID("x"), OP("="), NUM(1), OP("/"), NUM(2)>>,
     <<ID("x"), OP("="), ID("x"), OP("-"), NUM(1)>>,
     <<ID("x")>>,
     <<ID("y")>>,
     <<NUM(2), OP("/"), ID("x")>>,
     <<ID("x"), OP("/"), ID("y")>>,
     <<NUM(1), OP("/"), NUM(0), OP("/"), NUM(2)>>,
     <<ID("x"), OP("=")>>,
     <<KW_if, ID("x"), ID("y"), OP("="), NUM(1), KW_else, ID("y"), OP("="), NUM(2)>>,
     <<KW_if, ID("x"), OP("+"), NUM(1), ID("y"), OP("="), NUM(1)>>,
     <<KW_while, ID("x"), ID("x"), OP("="), ID("x"), OP("-"), NUM(1)>>,
     <<KW_while, NUM(0), ID("x"), OP("="), NUM(1)>>,
     <<KW_if, ID("x")>>,
     <<KW_while, ID("x"), KW_if, ID("y"), ID("x"), OP("="), ID("x"), OP("-"), NUM(1),
       KW_else, ID("y"), OP("="), NUM(1)>>,
     <<KW_while, NUM(2), OP("/"), ID("x"), ID("x"), OP("="), ID("x"), OP("-"), NUM(1)>>}
      \cup {tokenize(Text_5_div_0).tokens}

----------------------------------------------------------------------------
(* Specifications.                                                         *)

LexerIdle == text = <<>> /\ lpos = 0 /\ ltokens = <<>> /\ lstatus = "idle"
ParserIdle == tokens = <<>> /\ pos = 0 /\ ast = None /\ pstatus = "idle"
InterpreterNew == stack = <<>> /\ ret = NoValue /\ variables = <<>> /\ istatus = "idle"

\* Lexer(text), line 482
InitLex ==
    /\ text \in Texts
    /\ lpos = 0
    /\ ltokens = <<>>
    /\ lstatus = "scanning"
    /\ ParserIdle
    /\ InterpreterNew

NextLex == TokenizeStep \/ TokenizeReturn

SpecLex == InitLex /\ [][NextLex]_vars

\* Parser(tokens) and Interpreter(), lines 485 and 488
InitParse ==
    /\ LexerIdle
    /\ tokens \in TokenInputs
    /\ pos = 0
    /\ ast = None
    /\ pstatus = "ready"
    /\ InterpreterNew

NextParse == Parse \/ Interpret \/ InterpretStep

SpecParse == InitParse /\ [][NextParse]_vars


\* Parser(tokens) for the first input, and Interpreter()
Init ==
    /\ LexerIdle
    /\ tokens \in Programs
    /\ pos = 0
    /\ ast = None
    /\ pstatus = "ready"
    /\ InterpreterNew

NextInput == \E toks \in Programs : NewParser(toks)

Next == Parse \/ Interpret \/ InterpretStep \/ NextInput

Spec == Init /\ [][Next]_vars


----------------------------------------------------------------------------
(* Properties.                                                             *)

Additive == {<<"+">>, <<"-">>}
Multiplicative == {<<"*">>, <<"/">>}

IsPrimaryToken(t) == t.type \in {"NUMBER", "IDENTIFIER"}
IsOperatorToken(t) == t.type = "OPERATOR" /\ t.value \in Additive \cup Multiplicative
PrimaryNode(t) ==
    IF t.type = "NUMBER" THEN NumberNode(t.value) ELSE VariableNode(t.value)

\* the tokens of "a op1 b op2 c"
ThreeOperands(toks) ==
    /\ Len(toks) = 5
    /\ IsPrimaryToken(toks[1]) /\ IsOperatorToken(toks[2])
    /\ IsPrimaryToken(toks[3]) /\ IsOperatorToken(toks[4])
    /\ IsPrimaryToken(toks[5])

InterpretFinished == istatus \notin {"idle", "running"}

\* C1: when parse returns, Parser.pos is at most the number of tokens and the
\* result is the one parse gives for the consumed prefix alone; tokens after a
\* prefix on which parse already stopped short change neither the result nor
\* the position and make nothing fail; "x = 5 y = 3 x + y" gives
\* Assignment(x, Number 5) with pos 3 of 9.
C1_ParseStopsAfterOneStatement ==
    /\ pstatus = "returned" =>
          /\ pos <= Len(tokens)
          /\ parse(SubSeq(tokens, 1, pos)) = Returned(ast, pos)
    /\ pstatus # "ready" =>
          \A k \in 0..Len(tokens) :
              (parse(SubSeq(tokens, 1, k)).ok /\ parse(SubSeq(tokens, 1, k)).pos < k)
                  => /\ pstatus = "returned"
                     /\ ast = parse(SubSeq(tokens, 1, k)).node
                     /\ pos = parse(SubSeq(tokens, 1, k)).pos
    /\ (pstatus # "ready" /\ tokens = tokenize(Text_x_y_sum).tokens) =>
          /\ pstatus = "returned"
          /\ ast = AssignmentNode(<<"x">>, NumberNode(5))
          /\ pos = 3
          /\ pos < Len(tokens)

C1_Witness ==
    /\ pstatus = "returned"
    /\ tokens = tokenize(Text_x_y_sum).tokens
    /\ Len(tokens) = 9
    /\ pos = 3
    /\ ast = AssignmentNode(<<"x">>, NumberNode(5))

\* C2: for primaries a, b, c, "a op1 b op2 c" with op1 in {+, -} and op2 in
\* {*, /} parses to BinaryOp(a, op1, BinaryOp(b, op2, c)), and with op1 in
\* {*, /} and op2 in {+, -} to BinaryOp(BinaryOp(a, op1, b), op2, c);
\* "2 + 3 * 4" parses to BinaryOp(2, +, BinaryOp(3, *, 4)) and interprets to 14.
C2_MultiplicationBindsTighter ==
    /\ (pstatus # "ready" /\ ThreeOperands(tokens)) =>
          /\ (tokens[2].value \in Additive /\ tokens[4].value \in Multiplicative) =>
                /\ pstatus = "returned"
                /\ ast = BinaryOpNode(PrimaryNode(tokens[1]), tokens[2].value,
                             BinaryOpNode(PrimaryNode(tokens[3]), tokens[4].value,
                                          PrimaryNode(tokens[5])))
          /\ (tokens[2].value \in Multiplicative /\ tokens[4].value \in Additive) =>
                /\ pstatus = "returned"
                /\ ast = BinaryOpNode(
                             BinaryOpNode(PrimaryNode(tokens[1]), tokens[2].value,
                                          PrimaryNode(tokens[3])),
                             tokens[4].value, PrimaryNode(tokens[5]))
    /\ tokens = tokenize(Text_2_plus_3_times_4).tokens =>
          /\ pstatus # "ready" =>
                /\ pstatus = "returned"
                /\ ast = BinaryOpNode(NumberNode(2), <<"+">>,
                             BinaryOpNode(NumberNode(3), <<"*">>, NumberNode(4)))
          /\ InterpretFinished => istatus = "returned" /\ ret = IntValue(14)

C2_Witness ==
    /\ tokens = tokenize(Text_2_plus_3_times_4).tokens
    /\ ast = BinaryOpNode(NumberNode(2), <<"+">>,
                 BinaryOpNode(NumberNode(3), <<"*">>, NumberNode(4)))
    /\ istatus = "returned"
    /\ ret = IntValue(14)

\* C10: for primaries a, b, c and op1, op2 both in {+, -} or both in {*, /},
\* "a op1 b op2 c" parses to BinaryOp(BinaryOp(a, op1, b), op2, c);
\* "8 - 3 - 2" interprets to 3.
C10_LeftAssociative ==
    /\ (pstatus # "ready" /\ ThreeOperands(tokens)) =>
          /\ ((tokens[2].value \in Additive /\ tokens[4].value \in Additive)
                \/ (tokens[2].value \in Multiplicative
                      /\ tokens[4].value \in Multiplicative)) =>
                /\ pstatus = "returned"
                /\ ast = BinaryOpNode(
                             BinaryOpNode(PrimaryNode(tokens[1]), tokens[2].value,
                                          PrimaryNode(tokens[3])),
                             tokens[4].value, PrimaryNode(tokens[5]))
    /\ (tokens = tokenize(Text_8_minus_3_minus_2).tokens /\ InterpretFinished) =>
          istatus = "returned" /\ ret = IntValue(3)

C10_Witness ==
    /\ tokens = tokenize(Text_8_minus_3_minus_2).tokens
    /\ ast = BinaryOpNode(BinaryOpNode(NumberNode(8), <<"-">>, NumberNode(3)),
                          <<"-">>, NumberNode(2))
    /\ istatus = "returned"
    /\ ret = IntValue(3)

\* C7: interpret of a node that parse returned never fails with the
\* unknown-node error.
C7_UnknownNodeUnreachable ==
    (pstatus = "returned" /\ ast # None) => istatus # "Unknown node type"

\* C8: parse returns None only for an empty token sequence.
C8_NoStatementOnlyWhenEmpty ==
    (pstatus = "returned" /\ ast = None) => tokens = <<>>

\* the position at which the maximal run of characters of S that starts at p ends
RECURSIVE RunEnd(_, _, _)
RunEnd(s, p, S) == IF p < Len(s) /\ s[p + 1] \in S THEN RunEnd(s, p + 1, S) ELSE p

\* what C9 says of the loop iteration that starts at a space, at a decimal
\* digit or at a letter
MaximalMunchStep ==
    /\ text[lpos + 1] \in SpaceChars =>
          lstatus' = "scanning" /\ lpos' = lpos + 1 /\ ltokens' = ltokens
    /\ text[lpos + 1] \in DecimalChars =>
          /\ lstatus' = "scanning"
          /\ lpos' = RunEnd(text, lpos, DecimalChars)
          /\ ltokens' = Append(ltokens,
                 Token("NUMBER", int(SubSeq(text, lpos + 1, lpos'))))
    /\ text[lpos + 1] \in AlphaChars =>
          /\ lstatus' = "scanning"
          /\ lpos' = RunEnd(text, lpos, AlphaChars \cup DecimalChars)
          /\ ltokens' = Append(ltokens,
                 Token(IF SubSeq(text, lpos + 1, lpos') \in keywords
                       THEN "KEYWORD" ELSE "IDENTIFIER",
                       SubSeq(text, lpos + 1, lpos')))

\* C9: a maximal run of digits yields one NUMBER token, the decimal integer of
\* the run; a maximal run of a letter followed by letters and digits yields one
\* token, KEYWORD iff the run is if, else, while or def and IDENTIFIER
\* otherwise; whitespace yields no token.
C9_MaximalMunch == [][TokenizeStep => MaximalMunchStep]_vars

\* C9 for a text of ASCII characters only
C9_MaximalMunchAscii ==
    [][(TokenizeStep /\ \A k \in 1..Len(text) :
                           text[k] \notin SuperscriptChars \cup FractionChars)
          => MaximalMunchStep]_vars

\* C3, step by step: only the store of an Assignment changes
\* Interpreter.variables, it sets the name to the value it returns and leaves
\* every other name alone; a Variable returns the value stored under its name,
\* or 0 when there is none.
EnvironmentStep ==
    /\ variables' # variables => Running("AssignmentNode", "value")
    /\ Running("AssignmentNode", "value") =>
          /\ DOMAIN variables' = DOMAIN variables \cup {Top.node.name}
          /\ variables'[Top.node.name] = ret
          /\ ret' = ret
          /\ \A k \in DOMAIN variables \ {Top.node.name} : variables'[k] = variables[k]
    /\ Running("VariableNode", "enter") =>
          ret' = IF Top.node.name \in DOMAIN variables
                 THEN variables[Top.node.name] ELSE IntValue(0)

\* C3: the environment persists from one interpret call to the next and is
\* written by Assignment only, so a Variable reads the value of the latest
\* completed Assignment to its name, or 0.
C3_EnvironmentPersists == [][EnvironmentStep]_vars

\* x was assigned by an earlier input and is read by this one
C3_Witness ==
    /\ istatus = "returned"
    /\ ast = VariableNode(<<"x">>)
    /\ <<"x">> \in DOMAIN variables
    /\ ret = variables[<<"x">>]
    /\ ret = IntValue(2)

\* the value of a NumberNode or VariableNode in the current environment
PrimaryValue(node) ==
    IF node.type = "NumberNode" THEN IntValue(node.value)
    ELSE VariablesGet(variables, node.name)

\* C4 as claimed: interpret of a BinaryOp with operator / fails with the
\* division-by-zero error exactly when its right operand evaluates to zero.
C4_FailsExactlyWhenRightIsZero ==
    (InterpretFinished /\ ast.type = "BinaryOpNode" /\ ast.op = <<"/">>) =>
        (istatus = "Division by zero" <=> PrimaryValue(ast.right).n = 0)

DivisionStep ==
    (Running("BinaryOpNode", "right") /\ Top.node.op = <<"/">>
       /\ Top.left.kind = "number" /\ ret.kind = "number") =>
        IF ret.n = 0 THEN istatus' = "Division by zero"
        ELSE /\ istatus' \in {"running", "returned"}
             /\ ret'.kind = "number"
             /\ ret'.n * ret.n * Top.left.d = Top.left.n * ret.d * ret'.d

Division5By0 ==
    tokens = tokenize(Text_5_div_0).tokens =>
        /\ tokenize(Text_5_div_0).status = "returned"
        /\ pstatus # "ready" => pstatus = "returned"
        /\ InterpretFinished => istatus = "Division by zero"

\* C4, amended: a BinaryOp with operator / whose two operands have both been
\* evaluated fails with the division-by-zero error exactly when the right
\* value is zero, whatever the left value, and returns the quotient otherwise;
\* tokenizing and parsing "5 / 0" succeed and interpret fails.
C4_DivisionByZero == [][DivisionStep]_vars /\ []Division5By0

\* x / y with y undefined
C4_Witness ==
    /\ istatus = "Division by zero"
    /\ ast = BinaryOpNode(VariableNode(<<"x">>), <<"/">>, VariableNode(<<"y">>))
    /\ <<"x">> \in DOMAIN variables
    /\ <<"y">> \notin DOMAIN variables

\* the stack after the activation on top, become f, has called interpret(node)
AfterCall(f, node) == Append([stack EXCEPT ![Len(stack)] = f], Frame(node))
\* the stack after the activation on top has returned
AfterReturn == SubSeq(stack, 1, Len(stack) - 1)

IfElseTokens ==
    <<KW_if, ID("x"), ID("y"), OP("="), NUM(1), KW_else, ID("y"), OP("="), NUM(2)>>
IfOnlyTokens == <<KW_if, ID("x"), OP("+"), NUM(1), ID("y"), OP("="), NUM(1)>>

IfStep ==
    /\ (Running("IfNode", "condition") /\ Top.node.if_body # None) =>
          /\ variables' = variables
          /\ IF ret.kind = "number" /\ ret.n # 0
             THEN stack' = AfterCall([Top EXCEPT !.at = "if_body"], Top.node.if_body)
             ELSE IF Top.node.else_body # None
             THEN stack' = AfterCall([Top EXCEPT !.at = "else_body"], Top.node.else_body)
             ELSE stack' = AfterReturn /\ ret' = NoValue
    /\ (istatus = "running" /\ stack # <<>> /\ Top.node.type = "IfNode"
          /\ Top.at \in {"if_body", "else_body"}) =>
          stack' = AfterReturn /\ ret' = ret /\ variables' = variables

IfResult ==
    /\ (tokens = IfElseTokens /\ istatus = "returned") =>
          /\ VariablesGet(variables, <<"x">>).n # 0 =>
                ret = IntValue(1) /\ variables[<<"y">>] = IntValue(1)
          /\ VariablesGet(variables, <<"x">>).n = 0 =>
                ret = IntValue(2) /\ variables[<<"y">>] = IntValue(2)
    /\ (tokens = IfOnlyTokens /\ istatus = "returned") =>
          /\ VariablesGet(variables, <<"x">>) # IntValue(-1) =>
                ret = IntValue(1) /\ variables[<<"y">>] = IntValue(1)
          /\ VariablesGet(variables, <<"x">>) = IntValue(-1) => ret = NoValue

\* C5: an If with a then-branch evaluates the condition and then the
\* then-branch only when the condition is non-zero (negative included), the
\* else-branch only when it is zero and there is one, and nothing otherwise,
\* returning None; it returns what the branch returned, and the branch not
\* selected leaves no assignment in the environment.
C5_IfSelectsOneBranch == [][IfStep]_vars /\ []IfResult

\* a negative condition selects the then-branch
C5_Witness ==
    /\ tokens = IfElseTokens
    /\ istatus = "returned"
    /\ <<"x">> \in DOMAIN variables
    /\ variables[<<"x">>].n < 0
    /\ variables[<<"y">>] = IntValue(1)
    /\ ret = IntValue(1)

CountdownTokens ==
    <<KW_while, ID("x"), ID("x"), OP("="), ID("x"), OP("-"), NUM(1)>>
WhileZeroTokens == <<KW_while, NUM(0), ID("x"), OP("="), NUM(1)>>

WhileStep ==
    /\ Running("WhileNode", "enter") =>
          /\ stack' = AfterCall([Top EXCEPT !.at = "condition", !.result = NoValue],
                                Top.node.condition)
          /\ variables' = variables
    /\ Running("WhileNode", "condition") =>
          /\ variables' = variables
          /\ IF ret.kind = "number" /\ ret.n # 0
             THEN stack' = AfterCall([Top EXCEPT !.at = "body"], Top.node.body)
             ELSE stack' = AfterReturn /\ ret' = Top.result
    /\ Running("WhileNode", "body") =>
          /\ stack' = AfterCall([Top EXCEPT !.at = "condition", !.result = ret],
                                Top.node.condition)
          /\ variables' = variables
    /\ (istatus = "running" /\ stack # <<>> /\ Top.node.type = "WhileNode"
          /\ istatus' \in {"running", "returned"} /\ Len(stack') < Len(stack)) =>
          Top.at = "condition" /\ ~(ret.kind = "number" /\ ret.n # 0)

WhileResult ==
    /\ (tokens = CountdownTokens /\ istatus = "returned") =>
          /\ VariablesGet(variables, <<"x">>) = IntValue(0)
          /\ ret \in {NoValue, IntValue(0)}
    /\ (tokens = WhileZeroTokens /\ InterpretFinished) =>
          istatus = "returned" /\ ret = NoValue

\* C6: a While checks its condition first and after every body; a non-zero
\* check is followed by the body, once, a zero check by the return and by
\* nothing else; it returns only at a zero check, the value of the last body,
\* or None when the first check is zero, the environment then left as it was.
C6_WhileAlternates == [][WhileStep]_vars /\ []WhileResult

\* the countdown ran its body and returned the last body value
C6_Witness ==
    /\ tokens = CountdownTokens
    /\ istatus = "returned"
    /\ ret = IntValue(0)
    /\ variables[<<"x">>] = IntValue(0)

====
